---- MODULE Spec2Model ----
(***************************************************************************)
(* A model of app.py, the quantum teleportation visual simulator.          *)
(*                                                                         *)
(* Floating-point numbers are modelled in fixed point: the integer n       *)
(* stands for the real n / S.  A complex number is a pair <<re, im>>.      *)
(* NaN is a distinguished value that every arithmetic operation            *)
(* propagates, as IEEE arithmetic does.  The numpy functions the script    *)
(* calls (abs, arccos, angle, sin, cos, sqrt, exp) are computed in that    *)
(* arithmetic, to within a few units of 1/S.                               *)
(***************************************************************************)
EXTENDS Integers, Sequences, FiniteSets, TLC

\* ------------------------------------------------------------ arithmetic

\* The fixed-point scale: the float 1.0.
S == 10000

\* np.pi, 2*np.pi and np.pi/2 at scale S.
Pi == 31416

TwoPi == 2 * Pi

HalfPi == Pi \div 2

\* 1/sqrt(2) at scale S: the factor of a Hadamard gate.
InvSqrt2 == 7071

\* The float nan, which np.arccos returns outside [-1, 1].
NaN == 999999999

IsNaN(v) == v = NaN

AbsInt(n) == IF n < 0 THEN -n ELSE n

\* n / d rounded to the nearest integer (d > 0).
RDiv(n, d) == (2 * n + d) \div (2 * d)

\* x * y of two floats.
FMul(x, y) == IF IsNaN(x) \/ IsNaN(y) THEN NaN ELSE RDiv(x * y, S)

\* x - y of two floats.
FSub(x, y) == IF IsNaN(x) \/ IsNaN(y) THEN NaN ELSE x - y

RECURSIVE IsqrtB(_, _, _)
\* The largest r in lo..hi with r * r <= n, by bisection (lo * lo <= n < (hi+1)^2).
IsqrtB(n, lo, hi) ==
  IF lo >= hi THEN lo
  ELSE LET mid == (lo + hi + 1) \div 2
       IN  IF mid * mid <= n THEN IsqrtB(n, mid, hi) ELSE IsqrtB(n, lo, mid - 1)

\* The integer nearest to the square root of n (0 <= n < 2^31).
Isqrt(n) ==
  LET r == IsqrtB(n, 0, 46340)
  IN  IF n - r * r > r THEN r + 1 ELSE r

\* np.sqrt of a float v >= 0; nan for a negative v.
Sqrt(v) == IF IsNaN(v) \/ v < 0 THEN NaN ELSE Isqrt(v * S)

\* cos on [0, pi/2]: the Taylor polynomial to x^10, in Horner form.
CosT(x) ==
  LET x2 == RDiv(x * x, S)
      t5 == S - RDiv(x2, 90)
      t4 == S - RDiv(x2 * t5, 56 * S)
      t3 == S - RDiv(x2 * t4, 30 * S)
      t2 == S - RDiv(x2 * t3, 12 * S)
  IN  S - RDiv(x2 * t2, 2 * S)

\* sin on [0, pi/2]: the Taylor polynomial to x^11, in Horner form.
SinT(x) ==
  LET x2 == RDiv(x * x, S)
      t5 == S - RDiv(x2, 110)
      t4 == S - RDiv(x2 * t5, 72 * S)
      t3 == S - RDiv(x2 * t4, 42 * S)
      t2 == S - RDiv(x2 * t3, 20 * S)
      t1 == S - RDiv(x2 * t2, 6 * S)
  IN  RDiv(x * t1, S)

\* np.cos: the argument is reduced to [0, 2*pi), then to the first quadrant.
Cos(x) ==
  IF IsNaN(x) THEN NaN
  ELSE LET r == x % TwoPi
       IN  IF r <= HalfPi THEN CosT(r)
           ELSE IF r <= Pi THEN -CosT(Pi - r)
           ELSE IF r <= Pi + HalfPi THEN -CosT(r - Pi)
           ELSE CosT(TwoPi - r)

\* np.sin, reduced the same way.
Sin(x) ==
  IF IsNaN(x) THEN NaN
  ELSE LET r == x % TwoPi
       IN  IF r <= HalfPi THEN SinT(r)
           ELSE IF r <= Pi THEN SinT(Pi - r)
           ELSE IF r <= Pi + HalfPi THEN -SinT(r - Pi)
           ELSE -SinT(TwoPi - r)

RECURSIVE ArcCosB(_, _, _)
\* The least t in lo+1..hi with CosT(t) <= r (CosT(lo) > r >= CosT(hi)).
ArcCosB(r, lo, hi) ==
  IF hi - lo <= 1 THEN hi
  ELSE LET mid == (lo + hi) \div 2
       IN  IF CosT(mid) <= r THEN ArcCosB(r, lo, mid) ELSE ArcCosB(r, mid, hi)

\* arccos on [0, 1]: the inverse of CosT.
ArcCosT(r) == IF CosT(0) <= r THEN 0 ELSE ArcCosB(r, 0, HalfPi)

RECURSIVE ArcSinB(_, _, _)
\* The least t in lo+1..hi with SinT(t) >= s (SinT(lo) < s <= SinT(hi)).
ArcSinB(s, lo, hi) ==
  IF hi - lo <= 1 THEN hi
  ELSE LET mid == (lo + hi) \div 2
       IN  IF SinT(mid) >= s THEN ArcSinB(s, lo, mid) ELSE ArcSinB(s, mid, hi)

\* arcsin on [0, 1]: the inverse of SinT.
ArcSinT(s) == IF SinT(0) >= s THEN 0 ELSE ArcSinB(s, 0, HalfPi)

\* As np.arccos with the argument clamped to [-1, 1] first.
ArcCosClamped(r) ==
  IF IsNaN(r) THEN NaN
  ELSE IF r >= S THEN 0
  ELSE IF r <= -S THEN Pi
  ELSE IF r >= 0 THEN ArcCosT(r) ELSE Pi - ArcCosT(-r)

\* np.arccos: in [0, pi] on [-1, 1], nan outside (no clamping, no exception).
ArcCos(r) ==
  IF IsNaN(r) \/ r > S \/ r < -S THEN NaN
  ELSE IF r >= 0 THEN ArcCosT(r) ELSE Pi - ArcCosT(-r)

\* np.abs of a complex number: its modulus.
Abs(c) == Isqrt(c[1] * c[1] + c[2] * c[2])

\* np.angle of a complex number: arctan2(im, re) in (-pi, pi], 0 at the origin.
Angle(c) ==
  IF c[1] = 0 /\ c[2] = 0 THEN 0
  ELSE LET r == Abs(c)
           re == AbsInt(c[1])
           im == AbsInt(c[2])
           base == IF re >= im
                   THEN ArcSinT(IF im >= r THEN S ELSE RDiv(im * S, r))
                   ELSE ArcCosT(IF re >= r THEN S ELSE RDiv(re * S, r))
       IN  IF c[1] >= 0 /\ c[2] >= 0 THEN base
           ELSE IF c[1] < 0 /\ c[2] >= 0 THEN Pi - base
           ELSE IF c[1] < 0 THEN base - Pi
           ELSE -base

\* ------------------------------------------------ plot_bloch_vector

\* BlochVector with y computed with the cosine of phi, as x is.
BlochVectorSameTrig(sv) ==
  LET a == sv[1]
      b == sv[2]
      theta == FMul(2 * S, ArcCos(Abs(a)))
      phi == Angle(b) - Angle(a)
  IN  [theta |-> theta,
       phi |-> phi,
       x |-> FMul(Sin(theta), Cos(phi)),
       y |-> FMul(Sin(theta), Cos(phi)),
       z |-> Cos(theta)]

\* BlochVector with theta = arccos(|a|), the factor 2 forgotten.
BlochVectorNoDouble(sv) ==
  LET a == sv[1]
      b == sv[2]
      theta == ArcCos(Abs(a))
      phi == Angle(b) - Angle(a)
  IN  [theta |-> theta,
       phi |-> phi,
       x |-> FMul(Sin(theta), Cos(phi)),
       y |-> FMul(Sin(theta), Sin(phi)),
       z |-> Cos(theta)]

\* BlochVector with phi = arg(a) - arg(b), the operands exchanged.
BlochVectorPhiReversed(sv) ==
  LET a == sv[1]
      b == sv[2]
      theta == FMul(2 * S, ArcCos(Abs(a)))
      phi == Angle(a) - Angle(b)
  IN  [theta |-> theta,
       phi |-> phi,
       x |-> FMul(Sin(theta), Cos(phi)),
       y |-> FMul(Sin(theta), Sin(phi)),
       z |-> Cos(theta)]

\* BlochVector with theta = 2 * arccos(a.real), the real part for the modulus.
BlochVectorRealPart(sv) ==
  LET a == sv[1]
      b == sv[2]
      theta == FMul(2 * S, ArcCos(a[1]))
      phi == Angle(b) - Angle(a)
  IN  [theta |-> theta,
       phi |-> phi,
       x |-> FMul(Sin(theta), Cos(phi)),
       y |-> FMul(Sin(theta), Sin(phi)),
       z |-> Cos(theta)]

\* theta, phi and the Cartesian coordinates plot_bloch_vector computes from
\* statevector[0] and statevector[1] (a Python sequence is 0-based).
BlochVector(sv) ==
  LET a == sv[1]
      b == sv[2]
      theta == FMul(2 * S, ArcCos(Abs(a)))
      phi == Angle(b) - Angle(a)
  IN  [theta |-> theta,
       phi |-> phi,
       x |-> FMul(Sin(theta), Cos(phi)),
       y |-> FMul(Sin(theta), Sin(phi)),
       z |-> Cos(theta)]

\* The sampling of the sphere: np.mgrid[0:2*np.pi:40j, 0:np.pi:20j].
MeshU == 40

MeshV == 20

\* go.Figure(): a figure with no trace and an empty layout.
Figure == [data |-> <<>>, layout |-> [title |-> "", width |-> 0, height |-> 0]]

\* fig.add_surface(x=xs, y=ys, z=zs, ...): appends the unit-sphere surface,
\* which is the same MeshU x MeshV mesh for every input.
add_surface(f) ==
  [f EXCEPT !.data = Append(@, [type |-> "surface", nu |-> MeshU, nv |-> MeshV,
                                 x |-> <<>>, y |-> <<>>, z |-> <<>>])]

\* add_trace that assigns the figure's traces instead of appending to them.
add_trace_replaces(f, v) ==
  [f EXCEPT !.data = <<[type |-> "scatter3d", nu |-> 0, nv |-> 0,
                        x |-> <<0, v.x>>, y |-> <<0, v.y>>, z |-> <<0, v.z>>]>>]

\* fig.add_trace(go.Scatter3d(x=[0, x], y=[0, y], z=[0, z], ...)).
add_trace(f, v) ==
  [f EXCEPT !.data = Append(@, [type |-> "scatter3d", nu |-> 0, nv |-> 0,
                                 x |-> <<0, v.x>>, y |-> <<0, v.y>>, z |-> <<0, v.z>>])]

\* fig.update_layout(title=title, width=450, height=450, ...).
update_layout(f, t) == [f EXCEPT !.layout = [title |-> t, width |-> 450, height |-> 450]]

\* ------------------------------------------------------ the sliders

\* st.sidebar.slider("Amplitude ...", 0.0, 1.0, 0.8): minimum, maximum, default.
AlphaMin == 0

AlphaMax == 10000

AlphaDefault == 8000

\* st.sidebar.slider("Fase ...", 0.0, 6.28, 0.0): minimum, maximum, default.
PhaseMin == 0

PhaseMax == 62800

PhaseDefault == 0

\* The slider positions the model tries: AlphaSteps (PhaseSteps) equal steps
\* from the minimum to the maximum, and the default.
AlphaSteps == 2

PhaseSteps == 4

AlphaVals ==
  {AlphaMin + RDiv(k * (AlphaMax - AlphaMin), AlphaSteps) : k \in 0..AlphaSteps}
    \cup {AlphaDefault}

PhaseVals ==
  {PhaseMin + RDiv(k * (PhaseMax - PhaseMin), PhaseSteps) : k \in 0..PhaseSteps}
    \cup {PhaseDefault}

\* A Python float used where a complex number is expected.
ToComplex(r) == <<r, 0>>

\* compute_beta without the square root.
compute_beta_no_sqrt(al, ph) ==
  LET root == FSub(S, FMul(al, al))
  IN  <<FMul(root, Cos(ph)), FMul(root, Sin(ph))>>

\* beta = np.sqrt(1 - alpha**2) * np.exp(1j * phase)
compute_beta(al, ph) ==
  LET root == Sqrt(FSub(S, FMul(al, al)))
  IN  <<FMul(root, Cos(ph)), FMul(root, Sin(ph))>>

\* |a|^2 + |b|^2 of a state, at scale S * S.
NormSq(sv) ==
  sv[1][1] * sv[1][1] + sv[1][2] * sv[1][2] + sv[2][1] * sv[2][1] + sv[2][2] * sv[2][2]

\* Two floats are equal to within Tol / S.
Tol == 5

Near(u, v) == ~IsNaN(u) /\ ~IsNaN(v) /\ AbsInt(u - v) <= Tol

CNear(c, d) == Near(c[1], d[1]) /\ Near(c[2], d[2])

\* |a|^2 + |b|^2 = 1, to within the tolerance.
Normalized(sv) == AbsInt(NormSq(sv) - S * S) <= 2 * S * Tol

\* ------------------------------------------- circuits and simulation

\* QuantumCircuit(n, m): no instruction yet.
QuantumCircuit(n, m) == [num_qubits |-> n, num_clbits |-> m, data |-> <<>>]

Instruction(name, qubits, clbits, params) ==
  [name |-> name, qubits |-> qubits, clbits |-> clbits, params |-> params]

\* qc.initialize(params, q), qc.h(q), qc.cx(c, t), qc.measure(qs, cs),
\* qc.save_statevector(): each appends one instruction.
qc_initialize(c, params, q) ==
  [c EXCEPT !.data = Append(@, Instruction("initialize", <<q>>, <<>>, params))]

qc_h(c, q) == [c EXCEPT !.data = Append(@, Instruction("h", <<q>>, <<>>, <<>>))]

qc_cx(c, q, r) == [c EXCEPT !.data = Append(@, Instruction("cx", <<q, r>>, <<>>, <<>>))]

qc_measure(c, qs, cs) ==
  [c EXCEPT !.data = Append(@, Instruction("measure", qs, cs, <<>>))]

qc_save_statevector(c) ==
  [c EXCEPT !.data = Append(@, Instruction("save_statevector", <<>>, <<>>, <<>>))]

CAdd(c, d) == <<c[1] + d[1], c[2] + d[2]>>

CSub(c, d) == <<c[1] - d[1], c[2] - d[2]>>

CMul(c, d) ==
  <<FMul(c[1], d[1]) - FMul(c[2], d[2]), FMul(c[1], d[2]) + FMul(c[2], d[1])>>

CScale(c, k) == <<FMul(c[1], k), FMul(c[2], k)>>

RECURSIVE Pow2(_)
Pow2(q) == IF q = 0 THEN 1 ELSE 2 * Pow2(q - 1)

\* Bit q of basis index i (qubit 0 is the least significant bit).
Bit(i, q) == (i \div Pow2(q)) % 2

\* The simulator's state of n qubits: amplitudes by basis index, all in |0..0>.
ZeroState(n) == [i \in 0..(Pow2(n) - 1) |-> IF i = 0 THEN <<S, 0>> ELSE <<0, 0>>]

\* initialize on a qubit that is in |0>: the qubit takes the amplitudes params.
ApplyInitialize(st, q, params) ==
  [i \in DOMAIN st |->
     IF Bit(i, q) = 0 THEN CMul(st[i], params[1])
     ELSE CMul(st[i - Pow2(q)], params[2])]

\* A Hadamard gate on qubit q.
ApplyH(st, q) ==
  [i \in DOMAIN st |->
     IF Bit(i, q) = 0 THEN CScale(CAdd(st[i], st[i + Pow2(q)]), InvSqrt2)
     ELSE CScale(CSub(st[i - Pow2(q)], st[i]), InvSqrt2)]

\* A CNOT with control c and target t.
ApplyCX(st, c, t) ==
  [i \in DOMAIN st |->
     IF Bit(i, c) = 0 THEN st[i]
     ELSE IF Bit(i, t) = 0 THEN st[i + Pow2(t)] ELSE st[i - Pow2(t)]]

\* Whether basis index i reads m[k] on qubit qs[k], for every k.
Reads(i, qs, m) == \A k \in 1..Len(qs) : Bit(i, qs[k]) = m[k]

RECURSIVE SumSq(_, _, _, _)
\* The probability (at scale S * S) that measuring qubits qs gives m: the sum over
\* the basis indices i..7 that read m.
SumSq(st, qs, m, i) ==
  IF i \notin DOMAIN st THEN 0
  ELSE (IF Reads(i, qs, m) THEN st[i][1] * st[i][1] + st[i][2] * st[i][2] ELSE 0)
         + SumSq(st, qs, m, i + 1)

Probability(st, qs, m) == SumSq(st, qs, m, 0)

\* The state after measuring qubits qs with outcome m: projected and renormalised.
Collapse(st, qs, m) ==
  LET norm == Isqrt(Probability(st, qs, m))
  IN  [i \in DOMAIN st |->
         IF Reads(i, qs, m) THEN <<RDiv(st[i][1] * S, norm), RDiv(st[i][2] * S, norm)>>
         ELSE <<0, 0>>]

\* One instruction applied to the simulator's state; m is the outcome a
\* measurement gives.
ApplyInstruction(st, ins, m) ==
  IF ins.name = "initialize" THEN ApplyInitialize(st, ins.qubits[1], ins.params)
  ELSE IF ins.name = "h" THEN ApplyH(st, ins.qubits[1])
  ELSE IF ins.name = "cx" THEN ApplyCX(st, ins.qubits[1], ins.qubits[2])
  ELSE IF ins.name = "measure" THEN Collapse(st, ins.qubits, m)
  ELSE st

RECURSIVE RunFrom(_, _, _, _)
\* The instructions data[k..] applied in order to state st.
RunFrom(data, k, st, m) ==
  IF k > Len(data) THEN st
  ELSE RunFrom(data, k + 1, ApplyInstruction(st, data[k], m), m)

\* One shot of circuit c in which the measurement gives m: the final state.
Execute(c, m) == RunFrom(c.data, 1, ZeroState(c.num_qubits), m)

RECURSIVE PrefixLen(_, _)
\* The number of instructions of data before its first measurement.
PrefixLen(data, k) ==
  IF k > Len(data) \/ data[k].name = "measure" THEN k - 1 ELSE PrefixLen(data, k + 1)

\* The state of circuit c just before its measurement.
BeforeMeasure(c) ==
  RunFrom(SubSeq(c.data, 1, PrefixLen(c.data, 1)), 1, ZeroState(c.num_qubits), <<>>)

\* The outcomes (bit of qubit 0, bit of qubit 1) a shot of c can give.
Outcomes(c) ==
  {m \in {0, 1} \X {0, 1} : Probability(BeforeMeasure(c), <<0, 1>>, m) > 0}

\* The state of qubit 2 alone in a state st in which qubits 0 and 1 read m.
Qubit2(st, m) == <<st[m[1] + 2 * m[2]], st[m[1] + 2 * m[2] + 4]>>


\* ------------------------------------------------------------- state

VARIABLES
  pc,           \* the statement of the script that runs next
  alpha,        \* the amplitude slider's value
  phase,        \* the phase slider's value
  beta,         \* beta, a complex number
  qc,           \* the 3-qubit teleportation circuit
  shots,        \* shots the simulator has run
  q2,           \* inside the simulator: qubit 2 after the last shot's last instruction
  counts,       \* result.get_counts(): how often each (bit 0, bit 1) was measured
  final_state,  \* the statevector read back from the 1-qubit circuit qc_final
  chart1,       \* the figure shown in the left column
  chart2,       \* the figure shown in the right column
  hist,         \* the counts shown as a histogram
  kept,         \* a call of plot_bloch_vector an observer remembers: arguments, result
  statevector,  \* plot_bloch_vector called on its own: its statevector argument
  title,        \* and its title argument
  fig,          \* the figure that call returned
  called,       \* whether that call has returned
  vec,          \* theta, phi, x, y, z of that call
  prev          \* |a|, arg(b) and z of a call an observer remembers

script == <<pc, alpha, phase, beta, qc, shots, q2, counts, final_state, chart1, chart2, hist>>

direct == <<statevector, title, fig, called, vec, prev>>

vars == <<script, kept, direct>>

\* plot_bloch_vector reading the script's counts: it draws the state with its
\* amplitudes exchanged when bit 1 was measured as 1.
plot_bloch_vector_reads_counts(sv, t) ==
  IF counts[<<0, 1>>] + counts[<<1, 1>>] > 0
  THEN update_layout(add_trace(add_surface(Figure), BlochVector(<<sv[2], sv[1]>>)), t)
  ELSE update_layout(add_trace(add_surface(Figure), BlochVector(sv)), t)

\* plot_bloch_vector(statevector, title): the figure returned. It reads its two
\* arguments and nothing else.
plot_bloch_vector(sv, t) ==
  update_layout(add_trace(add_surface(Figure), BlochVector(sv)), t)

\* The statevector read from qubit 2 of the teleportation circuit after a shot,
\* instead of from the 1-qubit circuit.
SavedStatevectorTeleported(c) ==
  LET m == CHOOSE o \in {0, 1} \X {0, 1} : counts[o] > 0
  IN  Qubit2(Execute(qc, m), m)

\* The statevector a 1-qubit circuit saves: job_state.result().data(0)["statevector"].
SavedStatevector(c) == LET st == Execute(c, <<>>) IN <<st[0], st[1]>>

\* ------------------------------------------------------- the script

None == <<>>

NoCounts == [m \in {0, 1} \X {0, 1} |-> 0]

NoCall == [statevector |-> None, title |-> "", fig |-> Figure, earlier |-> FALSE]

NoVec == [theta |-> 0, phi |-> 0, x |-> 0, y |-> 0, z |-> 0]

NoPrev == [absA |-> -1, argB |-> 0, z |-> 0]

\* shots=1024 in sim.run: the model runs Shots shots.
Shots == 1

TitleOriginal == "Estado Original (Qubit 0)"

TitleReceived == "Estado Recebido (Qubit 2)"

\* The script's variables when a run of it starts with the sliders at al and ph.
Start(al, ph) ==
  /\ pc = "beta"
  /\ alpha = al
  /\ phase = ph
  /\ beta = None
  /\ qc = None
  /\ shots = 0
  /\ q2 = None
  /\ counts = NoCounts
  /\ final_state = None
  /\ chart1 = Figure
  /\ chart2 = Figure
  /\ hist = NoCounts

DirectIdle ==
  /\ statevector = <<<<S, 0>>, <<0, 0>>>>
  /\ title = ""
  /\ fig = Figure
  /\ called = FALSE
  /\ vec = NoVec
  /\ prev = NoPrev

\* The first run: both sliders at their defaults.
Init == Start(AlphaDefault, PhaseDefault) /\ kept = NoCall /\ DirectIdle

Goto(from, to) == pc = from /\ pc' = to

\* line 58
ComputeBeta ==
  /\ Goto("beta", "circuit")
  /\ beta' = compute_beta(alpha, phase)
  /\ UNCHANGED <<alpha, phase, qc, shots, q2, counts, final_state, chart1, chart2, hist,
                 kept, direct>>

\* line 62
NewCircuit ==
  /\ Goto("circuit", "initialize")
  /\ qc' = QuantumCircuit(3, 2)
  /\ UNCHANGED <<alpha, phase, beta, shots, q2, counts, final_state, chart1, chart2, hist,
                 kept, direct>>

\* One statement that appends to qc.
Append1(from, to, c) ==
  /\ Goto(from, to)
  /\ qc' = c
  /\ UNCHANGED <<alpha, phase, beta, shots, q2, counts, final_state, chart1, chart2, hist,
                 kept, direct>>

\* line 65. initialize refuses amplitudes that are not normalised.
Initialize0 ==
  /\ pc = "initialize"
  /\ IF Normalized(<<ToComplex(alpha), beta>>)
     THEN /\ pc' = "h1"
          /\ qc' = qc_initialize(qc, <<ToComplex(alpha), beta>>, 0)
     ELSE /\ pc' = "error"
          /\ qc' = qc
  /\ UNCHANGED <<alpha, phase, beta, shots, q2, counts, final_state, chart1, chart2, hist,
                 kept, direct>>

\* line 68
H1 == Append1("h1", "cx12", qc_h(qc, 1))

\* line 69
CX12 == Append1("cx12", "cx01", qc_cx(qc, 1, 2))

\* line 72
CX01 == Append1("cx01", "h0", qc_cx(qc, 0, 1))

\* line 73
H0 == Append1("h0", "measure", qc_h(qc, 0))

\* line 76. Nothing is appended after the measurement (lines 78-79 are comments).
Measure == Append1("measure", "run", qc_measure(qc, <<0, 1>>, <<0, 1>>))

\* lines 84-87: one shot of the circuit. The measurement gives one of the
\* outcomes it can give; the simulator's state after the shot is kept in q2.
RunShot ==
  /\ pc = "run"
  /\ shots < Shots
  /\ \E m \in Outcomes(qc) :
       /\ counts' = [counts EXCEPT ![m] = @ + 1]
       /\ q2' = [outcome |-> m, state |-> Qubit2(Execute(qc, m), m)]
  /\ shots' = shots + 1
  /\ UNCHANGED <<pc, alpha, phase, beta, qc, final_state, chart1, chart2, hist, kept, direct>>

\* line 88: the result holds the counts alone.
GetCounts ==
  /\ Goto("run", "final")
  /\ shots = Shots
  /\ q2' = None
  /\ UNCHANGED <<alpha, phase, beta, qc, shots, counts, final_state, chart1, chart2, hist,
                 kept, direct>>

\* lines 91-93
qc_final == qc_save_statevector(qc_initialize(QuantumCircuit(1, 0), <<ToComplex(alpha), beta>>, 0))

\* lines 95-97
FinalState ==
  /\ Goto("final", "plot1")
  /\ final_state' = SavedStatevector(qc_final)
  /\ UNCHANGED <<alpha, phase, beta, qc, shots, q2, counts, chart1, chart2, hist, kept, direct>>

\* An observer remembers the arguments and the result of one call, any one, and
\* whether that call was made in an earlier run of the script.
Keep(sv, t, f) ==
  \/ kept' = kept
  \/ /\ kept = NoCall
     /\ kept' = [statevector |-> sv, title |-> t, fig |-> f, earlier |-> FALSE]

\* line 102
Plot1 ==
  /\ Goto("plot1", "plot2")
  /\ chart1' = plot_bloch_vector(<<ToComplex(alpha), beta>>, TitleOriginal)
  /\ Keep(<<ToComplex(alpha), beta>>, TitleOriginal, chart1')
  /\ UNCHANGED <<alpha, phase, beta, qc, shots, q2, counts, final_state, chart2, hist, direct>>

\* line 104
Plot2 ==
  /\ Goto("plot2", "histogram")
  /\ chart2' = plot_bloch_vector(final_state, TitleReceived)
  /\ Keep(final_state, TitleReceived, chart2')
  /\ UNCHANGED <<alpha, phase, beta, qc, shots, q2, counts, final_state, chart1, hist, direct>>

\* line 108
Histogram ==
  /\ Goto("histogram", "done")
  /\ hist' = counts
  /\ UNCHANGED <<alpha, phase, beta, qc, shots, q2, counts, final_state, chart1, chart2,
                 kept, direct>>

\* The user moves a slider: the script runs again from its first line.
Rerun ==
  /\ pc = "done"
  /\ \E al \in AlphaVals, ph \in PhaseVals :
       /\ pc' = "beta"
       /\ alpha' = al
       /\ phase' = ph
  /\ beta' = None
  /\ qc' = None
  /\ shots' = 0
  /\ q2' = None
  /\ counts' = NoCounts
  /\ final_state' = None
  /\ chart1' = Figure
  /\ chart2' = Figure
  /\ hist' = NoCounts
  /\ kept' = IF kept = NoCall THEN kept ELSE [kept EXCEPT !.earlier = TRUE]
  /\ UNCHANGED direct

Next ==
  \/ ComputeBeta
  \/ NewCircuit
  \/ Initialize0
  \/ H1
  \/ CX12
  \/ CX01
  \/ H0
  \/ Measure
  \/ RunShot
  \/ GetCounts
  \/ FinalState
  \/ Plot1
  \/ Plot2
  \/ Histogram
  \/ Rerun

Spec == Init /\ [][Next]_vars

\* ------------------------------------------- plot_bloch_vector, called

\* The amplitudes the arguments are drawn from: the first NAmps of AmpList.
NAmps == 12

AmpList ==
  <<<<S, 0>>, <<0, 0>>, <<0, S>>, <<InvSqrt2, 0>>, <<0, InvSqrt2>>, <<6000, 0>>,
    <<0, -8000>>, <<-5000, 5000>>, <<5000, 5000>>, <<3600, 4800>>, <<4800, -6400>>,
    <<-S, S>>, <<5000, 0>>, <<0, -S>>, <<-S, 0>>, <<12000, 0>>>>

Amps == {AmpList[i] : i \in 1..(IF NAmps < Len(AmpList) THEN NAmps ELSE Len(AmpList))}

Titles == {TitleOriginal, TitleReceived}

\* A caller outside the script calls plot_bloch_vector with any arguments.
InitPlot ==
  /\ Start(AlphaDefault, PhaseDefault)
  /\ kept = NoCall
  /\ statevector \in Amps \X Amps
  /\ title \in Titles
  /\ fig = Figure
  /\ called = FALSE
  /\ vec = NoVec
  /\ prev = NoPrev

\* The call: it runs to its return for every argument. An observer remembers
\* |a|, arg(b) and z of this call, or of an earlier one.
Call ==
  /\ ~called
  /\ fig' = plot_bloch_vector(statevector, title)
  /\ vec' = BlochVector(statevector)
  /\ called' = TRUE
  /\ \/ prev' = prev
     \/ prev' = [absA |-> Abs(statevector[1]), argB |-> Angle(statevector[2]), z |-> vec'.z]
  /\ UNCHANGED <<statevector, title, script, kept>>

\* The caller's next call, with arguments sv and t.
Again(sv, t) ==
  /\ called
  /\ statevector' = sv
  /\ title' = t
  /\ fig' = Figure
  /\ vec' = NoVec
  /\ called' = FALSE
  /\ UNCHANGED <<prev, script, kept>>

\* The caller changes statevector[0], statevector[1] or the title.
NewA == \E a \in Amps : Again(<<a, statevector[2]>>, title)

NewB == \E b \in Amps : Again(<<statevector[1], b>>, title)

NewTitle == \E t \in Titles : Again(statevector, t)

NextPlot == Call \/ NewA \/ NewB \/ NewTitle

SpecPlot == InitPlot /\ [][NextPlot]_vars

\* ------------------------------------------------------- properties

\* The end of the vector line of a figure: the second point of its second trace.
Vector(f) == [x |-> f.data[2].x[2], y |-> f.data[2].y[2], z |-> f.data[2].z[2]]

\* x^2 + y^2 + z^2 = 1, to within the tolerance.
OnSphere(v) ==
  /\ ~IsNaN(v.x) /\ ~IsNaN(v.y) /\ ~IsNaN(v.z)
  /\ AbsInt(v.x * v.x + v.y * v.y + v.z * v.z - S * S) <= 2 * S * Tol

AllNaN(v) == IsNaN(v.x) /\ IsNaN(v.y) /\ IsNaN(v.z)

NearVector(v, x, y, z) == Near(v.x, x) /\ Near(v.y, y) /\ Near(v.z, z)

\* C1: for every normalized state passed to plot_bloch_vector, the vector it
\* computes lies on the unit sphere, to within the tolerance.
C1_UnitSphere == (called /\ Normalized(statevector)) => OnSphere(Vector(fig))

\* A normalized state with complex amplitudes was plotted, off the axes.
C1_Witness ==
  /\ called
  /\ statevector = <<<<3600, 4800>>, <<4800, -6400>>>>
  /\ Normalized(statevector)
  /\ OnSphere(Vector(fig))
  /\ Vector(fig).x # 0 /\ Vector(fig).y # 0 /\ Vector(fig).z # 0

\* C2: the state (1, 0) is drawn at the north pole (0, 0, 1) and the state
\* (0, 1) at the south pole (0, 0, -1), to within the tolerance.
C2_Poles ==
  /\ (called /\ statevector = <<<<S, 0>>, <<0, 0>>>>) => NearVector(Vector(fig), 0, 0, S)
  /\ (called /\ statevector = <<<<0, 0>>, <<S, 0>>>>) => NearVector(Vector(fig), 0, 0, -S)

\* The south pole was drawn, after a call that drew the north pole.
C2_Witness ==
  /\ called
  /\ statevector = <<<<0, 0>>, <<S, 0>>>>
  /\ Vector(fig).z = -S
  /\ prev.absA = S /\ prev.z = S

\* C3: the state (1/sqrt2, 1/sqrt2) has theta = pi/2, phi = 0 and is drawn at
\* (1, 0, 0); the state (1/sqrt2, i/sqrt2) has phi = pi/2 and is drawn at
\* (0, 1, 0); all to within the tolerance.
C3_Equator ==
  /\ (called /\ statevector = <<<<InvSqrt2, 0>>, <<InvSqrt2, 0>>>>) =>
       /\ Near(vec.theta, HalfPi)
       /\ Near(vec.phi, 0)
       /\ NearVector(Vector(fig), S, 0, 0)
  /\ (called /\ statevector = <<<<InvSqrt2, 0>>, <<0, InvSqrt2>>>>) =>
       /\ Near(vec.theta, HalfPi)
       /\ Near(vec.phi, HalfPi)
       /\ NearVector(Vector(fig), 0, S, 0)

\* (1/sqrt2, i/sqrt2) was drawn on the y axis.
C3_Witness ==
  /\ called
  /\ statevector = <<<<InvSqrt2, 0>>, <<0, InvSqrt2>>>>
  /\ Near(Vector(fig).y, S)

\* C4: two calls whose first amplitudes have the same modulus compute the same
\* z, whatever the arguments of a and of b are.
C4_PhaseInvariantZ ==
  (called /\ prev.absA = Abs(statevector[1])) => Vector(fig).z = prev.z

\* Two calls with |a| = 3/5 and different arguments of b.
C4_Witness ==
  /\ called
  /\ statevector[1] = <<3600, 4800>>
  /\ prev.absA = 6000
  /\ prev.argB # Angle(statevector[2])
  /\ Vector(fig).z = prev.z

\* C5 as stated: a state that is not normalized is drawn off the unit sphere.
C5_OffSphere == (called /\ ~Normalized(statevector)) => ~OnSphere(Vector(fig))

\* C5, amended: a state that is not normalized is not refused, the call
\* returns a complete figure; with |a| <= 1 its vector is on the unit sphere
\* all the same, and with |a| > 1 its three coordinates are nan.
C5_Unnormalized ==
  (called /\ ~Normalized(statevector)) =>
    /\ Len(fig.data) = 2
    /\ Abs(statevector[1]) <= S => OnSphere(Vector(fig))
    /\ Abs(statevector[1]) > S => AllNaN(Vector(fig))

\* A state with |a| <= 1 that is not normalized was drawn on the sphere, after
\* one with |a| > 1 whose z was nan.
C5_Witness ==
  /\ called
  /\ ~Normalized(statevector)
  /\ Abs(statevector[1]) <= S
  /\ Abs(statevector[1]) > 0
  /\ OnSphere(Vector(fig))
  /\ prev.absA > S /\ IsNaN(prev.z)

IsSurface(tr) == tr.type = "surface" /\ tr.nu = MeshU /\ tr.nv = MeshV

IsVectorLine(tr, v) ==
  tr.type = "scatter3d" /\ tr.x = <<0, v.x>> /\ tr.y = <<0, v.y>> /\ tr.z = <<0, v.z>>

\* C6: the figure returned holds exactly one sphere surface and exactly one
\* vector line, a segment of two points from the origin to (x, y, z), for
\* every state and title.
C6_SceneShape ==
  called =>
    /\ Len(fig.data) = 2
    /\ Cardinality({k \in 1..Len(fig.data) : IsSurface(fig.data[k])}) = 1
    /\ Cardinality({k \in 1..Len(fig.data) : IsVectorLine(fig.data[k], vec)}) = 1
    /\ fig.layout.title = title

\* A figure with a title was returned for a state whose vector is nan.
C6_Witness ==
  /\ called
  /\ title = TitleReceived
  /\ AllNaN(vec)
  /\ Len(fig.data) = 2

AfterPlot1 == {"plot2", "histogram", "done"}

AfterPlot2 == {"histogram", "done"}

\* A remembered call and the run's call with the same arguments agree.
SameArgsSameFigure ==
  /\ (/\ pc \in AfterPlot1
      /\ kept.title = TitleOriginal
      /\ kept.statevector = <<ToComplex(alpha), beta>>) => chart1 = kept.fig
  /\ (/\ pc \in AfterPlot2
      /\ kept.title = TitleReceived
      /\ kept.statevector = final_state) => chart2 = kept.fig

\* A call of plot_bloch_vector leaves the script's other variables alone.
PlotWritesNothing ==
  pc \in {"plot1", "plot2"} =>
    UNCHANGED <<alpha, phase, beta, qc, shots, q2, counts, final_state, hist>>

IsGate(ins, name, qubits) == ins.name = name /\ ins.qubits = qubits

\* C8 as stated: the circuit that is run initialises qubit 0, entangles qubits
\* 1 and 2, applies CNOT(0, 1) and H(0), measures qubits 0 and 1, then applies
\* the X and Z corrections to qubit 2; after every shot qubit 2 holds the
\* original state.
C8_TeleportRestores ==
  q2 # None =>
    /\ Len(qc.data) >= 6
    /\ IsGate(qc.data[1], "initialize", <<0>>)
    /\ IsGate(qc.data[2], "h", <<1>>)
    /\ IsGate(qc.data[3], "cx", <<1, 2>>)
    /\ IsGate(qc.data[4], "cx", <<0, 1>>)
    /\ IsGate(qc.data[5], "h", <<0>>)
    /\ IsGate(qc.data[6], "measure", <<0, 1>>)
    /\ CNear(q2.state[1], ToComplex(alpha))
    /\ CNear(q2.state[2], beta)
    /\ \E i, j \in 7..Len(qc.data) :
         IsGate(qc.data[i], "x", <<2>>) /\ IsGate(qc.data[j], "z", <<2>>)

\* C9: the state [alpha, beta] the script passes as the original state is
\* normalized for every position of the sliders, and initialize accepts it.
C9_SliderStateNormalized ==
  /\ pc # "error"
  /\ pc # "beta" => Normalized(<<ToComplex(alpha), beta>>)
  /\ pc \in AfterPlot1 => OnSphere(Vector(chart1))

\* The original state was plotted with both sliders off their defaults.
C9_Witness ==
  /\ pc = "plot2"
  /\ alpha = 5000
  /\ phase = 15700
  /\ beta[2] # 0
  /\ Normalized(<<ToComplex(alpha), beta>>)

\* C10: the received state is the statevector of the 1-qubit circuit, equal to
\* [alpha, beta] whatever the teleportation circuit measured, and the vector
\* drawn for it is the vector drawn for the original state.
C10_ReceivedIsOriginal ==
  /\ pc \in {"plot1", "plot2", "histogram", "done"} =>
       final_state = <<ToComplex(alpha), beta>>
  /\ pc \in AfterPlot2 =>
       /\ chart2.data = chart1.data
       /\ chart2.layout.title = TitleReceived

\* Both charts are drawn after a shot that measured (1, 1), which leaves qubit
\* 2 of the teleportation circuit in another state than [alpha, beta].
C10_Witness ==
  /\ pc = "done"
  /\ hist[<<1, 1>>] > 0
  /\ alpha = AlphaDefault
  /\ beta # <<0, 0>>
  /\ chart2.data = chart1.data
  /\ Vector(chart2).x # 0

====
